---- MODULE Spec2Model ----
(***************************************************************************)
(* The ingestion pipeline of synapse_study_uploader.py: discovery with the *)
(* FileMetadataWorker pool, deduplication and sharding (load_files), the   *)
(* folder cache, the UploadWorker pool with its retry loop, the            *)
(* drain-then-join barrier (wait_for_threads) and the SIGINT handler.      *)
(*                                                                         *)
(* Python strings are modelled as sequences of one-character strings, so   *)
(* that formatting, padding, joining and splitting are computed and not    *)
(* assumed.                                                                *)
(***************************************************************************)
EXTENDS Integers, Sequences, FiniteSets, TLC

\* ------------------------------------------------------------------ bounds

MaxThreads == 2
MaxFiles == 3
MaxWalk == 2
MaxDepth == 2
MaxInterrupts == 2
MaxLoadFiles == 4
MaxLoadDepth == 5
MaxShardFiles == 100

\* ------------------------------------------------------- program constants

MAX_SYNAPSE_DEPTH == 10000
max_attempts == 5
RETRY_DELAY == 3

\* ------------------------------------------------------------------ strings

SEP == "/"

Digit == <<"0", "1", "2", "3", "4", "5", "6", "7", "8", "9">>

RECURSIVE Str(_)
\* str(n) of a non-negative integer
Str(n) == IF n < 10 THEN <<Digit[n + 1]>>
          ELSE Str(n \div 10) \o <<Digit[(n % 10) + 1]>>

RECURSIVE Fill(_, _)
Fill(c, n) == IF n <= 0 THEN <<>> ELSE <<c>> \o Fill(c, n - 1)

\* s.zfill(width), for s without a sign
ZFill(s, width) == Fill("0", width - Len(s)) \o s

RECURSIVE LStrip(_, _)
LStrip(s, c) == IF s # <<>> /\ Head(s) = c THEN LStrip(Tail(s), c) ELSE s

RECURSIVE RStrip(_, _)
RStrip(s, c) == IF s # <<>> /\ s[Len(s)] = c
                THEN RStrip(SubSeq(s, 1, Len(s) - 1), c) ELSE s

\* s.rfind(c) + 1: the 1-based position of the last c in s, 0 when absent
RFind1(s, c) == IF \E i \in 1..Len(s) : s[i] = c
                THEN CHOOSE i \in 1..Len(s) :
                        s[i] = c /\ \A j \in (i + 1)..Len(s) : s[j] # c
                ELSE 0

RECURSIVE Split(_, _)
\* s.split(c)
Split(s, c) ==
    IF \E i \in 1..Len(s) : s[i] = c
    THEN LET i == CHOOSE k \in 1..Len(s) :
                      s[k] = c /\ \A j \in 1..(k - 1) : s[j] # c
         IN  <<SubSeq(s, 1, i - 1)>> \o Split(SubSeq(s, i + 1, Len(s)), c)
    ELSE <<s>>

NonEmpty(s) == s # <<>>

\* s.replace(a, b) for one-character a and b
Replace(s, a, b) == [i \in 1..Len(s) |-> IF s[i] = a THEN b ELSE s[i]]

\* '{0}_{1}'.format(a, b)
Format2(a, b) == a \o <<"_">> \o b

\* ------------------------------------------------------------------ os.path

\* os.path.join(a, b) (posixpath)
PathJoin2(a, b) ==
    IF b # <<>> /\ Head(b) = SEP THEN b
    ELSE IF a = <<>> \/ a[Len(a)] = SEP THEN a \o b
    ELSE a \o <<SEP>> \o b

RECURSIVE PathJoin(_)
\* os.path.join(*parts), parts a non-empty sequence of strings
PathJoin(parts) ==
    IF Len(parts) = 1 THEN parts[1]
    ELSE PathJoin(<<PathJoin2(parts[1], parts[2])>>
                   \o SubSeq(parts, 3, Len(parts)))

\* os.path.dirname(p) (posixpath)
Dirname(p) ==
    LET head == SubSeq(p, 1, RFind1(p, SEP))
    IN  IF head # <<>> /\ head # Fill(SEP, Len(head))
        THEN RStrip(head, SEP) ELSE head

\* os.path.basename(p) (posixpath)
Basename(p) == SubSeq(p, RFind1(p, SEP) + 1, Len(p))

\* --------------------------------------------------------------- load_files

NONE == <<"<None>">>

Min(a, b) == IF a < b THEN a ELSE b

RECURSIVE group_by(_, _)
\* group_by(items, 'calculated_name') over the first n items: the groups in
\* insertion order, each the key and the (indices of the) member records
group_by(items, n) ==
    IF n = 0 THEN <<>>
    ELSE LET groups == group_by(items, n - 1)
             key == items[n].calculated_name
         IN  IF \E j \in 1..Len(groups) : groups[j].key = key
             THEN LET j == CHOOSE k \in 1..Len(groups) : groups[k].key = key
                  IN  [groups EXCEPT ![j].members = Append(@, n)]
             ELSE Append(groups, [key |-> key, members |-> <<n>>])

\* "Unique the duplicate file names": every member of a group of more than
\* one record is renamed '<counter>_<calculated_name>', counter from 1
UniqueNames(files) ==
    LET groups == group_by(files, Len(files))
    IN  [i \in 1..Len(files) |->
            LET g == CHOOSE k \in 1..Len(groups) :
                        \E m \in 1..Len(groups[k].members) :
                            groups[k].members[m] = i
                members == groups[g].members
                counter == CHOOSE m \in 1..Len(members) : members[m] = i
            IN  IF Len(members) <= 1 THEN files[i]
                ELSE [files[i] EXCEPT
                        !.calculated_name = Format2(Str(counter), @)]]

\* a slice that takes one element too many: files[i:j + 1]
SliceInclusive(n, i, j) == [k \in 1..(Min(j + 1, n) - i) |-> i + k]

\* files[i:j] of a list of n file references (0-based, j exclusive)
Slice(n, i, j) == [k \in 1..(Min(j, n) - i) |-> i + k]

RECURSIVE ShardsFrom(_, _, _)
\* [files[i:i + depth] for i in range(start, n, depth)]
ShardsFrom(n, start, depth) ==
    IF start >= n THEN <<>>
    ELSE <<Slice(n, start, start + depth)>> \o ShardsFrom(n, start + depth, depth)

Shards(n, depth) == ShardsFrom(n, 0, depth)

\* -------------------------------------------------------------------- state

VARIABLES
    _thread_count, _dry_run, _folder_depth, _remote_path, \* configuration
    _create_manifest_only,
    interpreter,        \* the Python the script runs on
    disk,               \* what os.walk will yield, in order
    _files, _folders, _synapse_folders, _work_queue, _thread_lock, _threads,
    _is_canceling,
    main_pc, ret, i, path, folder_num, folder_path, \* the main thread, its locals
    sig_pc, sig_i,      \* the running on_sigint handler
    pc, exit_thread, job, attempt_number, syn_file, \* the worker threads
    temp_dir,           \* the names present in the staging directory
    synapse,            \* the folders stored in Synapse, in order
    manifest,           \* the rows written to manifest.tsv, in order
    hist                \* observations of the run (no program state)

config == <<_thread_count, _dry_run, _folder_depth, _remote_path,
            _create_manifest_only, interpreter, disk>>
shared == <<_files, _folders, _synapse_folders, _work_queue, _thread_lock,
            _threads, _is_canceling>>
main == <<main_pc, ret, i, path, folder_num, folder_path>>
sig == <<sig_pc, sig_i>>
workers == <<pc, exit_thread, job, attempt_number, syn_file>>
vars == <<config, shared, main, sig, workers, temp_dir, synapse, manifest, hist>>

\* the project id given on the command line, and the handle ids
synapse_project == <<"P">>
ProjectId == <<"s", "y", "n", "P">>
DryRunId == <<"s", "y", "n", "0">>
RealId(n) == <<"s", "y", "n">> \o Str(n)

\* thread objects: the k-th FileMetadataWorker or UploadWorker created
Threads == {"FileMetadataWorker", "UploadWorker"} \X (1..MaxThreads)
MainThread == <<"main", 0>>
Unlocked == <<"unlocked", 0>>

Files == 1..MaxFiles

\* the remote_path argument as __init__ keeps it
InitRemotePath(remote_path) ==
    IF remote_path # NONE /\ Len(LStrip(RStrip(remote_path, " "), " ")) > 0
    THEN LET stripped == RStrip(LStrip(LStrip(RStrip(remote_path, " "), " "),
                                       SEP), SEP)
         IN  IF Len(stripped) = 0 THEN NONE ELSE stripped
    ELSE NONE

RemotePathArgs ==
    { NONE, <<"/", " ">>, <<" ", "r", "/", "q", "/">>, <<"r", "/", "/", "q">> }

NoDataset == [PatientID |-> NONE, StudyDate |-> NONE]

\* the files of the local tree: name, size and (for a readable DICOM file)
\* the fields the computed name is made of
DiskFiles ==
    { [name |-> <<"a">>, size |-> 1, ds |-> NoDataset],
      [name |-> <<"e">>, size |-> 0, ds |-> NoDataset],
      [name |-> <<"x", ".", "D", "C", "M">>, size |-> 1,
       ds |-> [PatientID |-> <<"p", "-", "1">>, StudyDate |-> <<"7">>]] }

RECURSIVE SeqsUpTo(_, _)
SeqsUpTo(S, n) ==
    IF n = 0 THEN {<<>>}
    ELSE LET shorter == SeqsUpTo(S, n - 1)
         IN  shorter \cup {Append(q, x) : q \in shorter, x \in S}

NoJob == [kind |-> "none"]

\* the interpreters the script is run with; which one it is matters to
\* create_manifest only (dict.keys() is a list on Python 2, a view on Python 3)
Interpreters(create_manifest_only) ==
    IF create_manifest_only THEN {"python2", "python3"} ELSE {"python3"}

InitHist ==
    [ created |-> <<>>,                    \* paths cached by create_folder_in_synapse
      meta_gets |-> [f \in Files |-> 0],   \* dequeues of a file_info
      job_gets |-> [f \in Files |-> 0],    \* dequeues of a folder_obj
      metadata_done |-> {},                \* add_metadata has returned
      stored |-> [f \in Files |-> 0],      \* store calls that returned
      failed |-> {},                       \* 'Failed to upload file' logged
      finished |-> {},                     \* upload_file_to_synapse has returned
      delay |-> [t \in Threads |-> 0],     \* time slept in the retry loop of the job
      late_gets |-> [t \in Threads |-> 0], \* dequeues after the handler signaled
      interrupts |-> 0,                    \* SIGINTs delivered
      exits |-> 0,                         \* sys.exit(1) calls
      folder_errors |-> 0,                 \* store calls of a folder that raised
      reads |-> 0,                         \* to_synapse_path calls of workers
      late_writes |-> 0 ]                  \* cache writes after such a call

InitRun ==
    /\ _files = <<>> /\ _folders = <<>>
    /\ _synapse_folders = <<>>
    /\ _work_queue = <<>>
    /\ _thread_lock = Unlocked
    /\ _threads = <<>>
    /\ _is_canceling = FALSE
    /\ main_pc = "start" /\ ret = "dedup" /\ i = 0 /\ path = <<>> /\ folder_num = 0
    /\ folder_path = <<>>
    /\ sig_pc = "idle" /\ sig_i = 0
    /\ pc = [t \in Threads |-> "new"]
    /\ exit_thread = [t \in Threads |-> FALSE]
    /\ job = [t \in Threads |-> NoJob]
    /\ attempt_number = [t \in Threads |-> 0]
    /\ syn_file = [t \in Threads |-> FALSE]
    /\ temp_dir = {}
    /\ synapse = <<>>
    /\ manifest = <<>>
    /\ hist = InitHist

Init ==
    /\ _thread_count \in 0..MaxThreads
    /\ _dry_run \in BOOLEAN
    /\ _folder_depth \in 1..MaxDepth
    /\ _remote_path \in {InitRemotePath(r) : r \in RemotePathArgs}
    /\ _create_manifest_only \in BOOLEAN
    /\ interpreter \in Interpreters(_create_manifest_only)
    /\ disk \in SeqsUpTo(DiskFiles, MaxWalk)
    /\ InitRun

\* ------------------------------------------------------------- folder cache

\* set_synapse_folder(synapse_path, parent) on the cache
set_synapse_folder(cache, synapse_path, parent) ==
    [q \in (DOMAIN cache) \cup {synapse_path} |->
        IF q = synapse_path THEN parent ELSE cache[q]]

\* to_synapse_path(*paths): found is FALSE where get_synapse_folder raises
\* KeyError
to_synapse_path(paths) ==
    LET full_synapse_path == PathJoin(<<synapse_project>> \o paths)
        synapse_parent_path == Dirname(full_synapse_path)
    IN  [ full_synapse_path |-> full_synapse_path,
          synapse_parent_path |-> synapse_parent_path,
          found |-> synapse_parent_path \in DOMAIN _synapse_folders,
          name |-> Basename(full_synapse_path) ]

\* a create_folder_in_synapse that does not look its parent up in the cache
create_folder_unchecked(p, store_ok, next_pc) ==
    LET sp == to_synapse_path(<<p>>)
    IN  IF ~_dry_run /\ ~store_ok
        THEN /\ main_pc' = "crashed"
             /\ hist' = [hist EXCEPT !.folder_errors = @ + 1]
             /\ UNCHANGED <<_synapse_folders, synapse>>
        ELSE /\ _synapse_folders' =
                    set_synapse_folder(_synapse_folders, sp.full_synapse_path,
                        IF _dry_run THEN DryRunId
                        ELSE RealId(Len(synapse) + 1))
             /\ synapse' = IF _dry_run THEN synapse
                           ELSE Append(synapse, sp.full_synapse_path)
             /\ hist' = [hist EXCEPT
                            !.created = Append(@, sp.full_synapse_path),
                            !.late_writes =
                                IF hist.reads > 0 THEN @ + 1 ELSE @]
             /\ main_pc' = next_pc

\* a create_folder_in_synapse that calls store in a dry run too
create_folder_always_stores(p, store_ok, next_pc) ==
    LET sp == to_synapse_path(<<p>>)
    IN  IF ~sp.found \/ ~store_ok
        THEN /\ main_pc' = "crashed"
             /\ hist' = IF sp.found
                        THEN [hist EXCEPT !.folder_errors = @ + 1]
                        ELSE hist
             /\ UNCHANGED <<_synapse_folders, synapse>>
        ELSE /\ _synapse_folders' =
                    set_synapse_folder(_synapse_folders, sp.full_synapse_path,
                                       RealId(Len(synapse) + 1))
             /\ synapse' = Append(synapse, sp.full_synapse_path)
             /\ hist' = [hist EXCEPT
                            !.created = Append(@, sp.full_synapse_path),
                            !.late_writes =
                                IF hist.reads > 0 THEN @ + 1 ELSE @]
             /\ main_pc' = next_pc

\* create_folder_in_synapse(p) by the main thread, which goes on at next_pc;
\* store_ok is whether the remote store call returns (it is not made in a
\* dry run). A KeyError of the parent lookup and an exception of the store
\* call end the main thread.
create_folder_in_synapse(p, store_ok, next_pc) ==
    LET sp == to_synapse_path(<<p>>)
    IN  IF ~sp.found \/ (~_dry_run /\ ~store_ok)
        THEN /\ main_pc' = "crashed"
             /\ hist' = IF sp.found
                        THEN [hist EXCEPT !.folder_errors = @ + 1]
                        ELSE hist
             /\ UNCHANGED <<_synapse_folders, synapse>>
        ELSE /\ _synapse_folders' =
                    set_synapse_folder(_synapse_folders, sp.full_synapse_path,
                        IF _dry_run THEN DryRunId
                        ELSE RealId(Len(synapse) + 1))
             /\ synapse' = IF _dry_run THEN synapse
                           ELSE Append(synapse, sp.full_synapse_path)
             /\ hist' = [hist EXCEPT
                            !.created = Append(@, sp.full_synapse_path),
                            !.late_writes =
                                IF hist.reads > 0 THEN @ + 1 ELSE @]
             /\ main_pc' = next_pc

\* -------------------------------------------------------------- main thread

\* the main thread executes program code (no handler is running on it)
MainRuns == sig_pc = "idle"

Terminated(t) == pc[t] \in {"new", "done", "crashed"}
Alive(t) == pc[t] \notin {"new", "done", "crashed"}

\* start(): login, the project handle is cached, load_files is entered
Start ==
    /\ MainRuns /\ main_pc = "start"
    /\ _synapse_folders' =
            set_synapse_folder(_synapse_folders, synapse_project, ProjectId)
    /\ main_pc' = "load_start_threads" /\ i' = 0
    /\ UNCHANGED <<config, _files, _folders, _work_queue, _thread_lock,
                   _threads, _is_canceling, ret, path, folder_num,
                   folder_path, sig, workers, temp_dir, synapse, manifest, hist>>

\* a start_threads that ignores its limit
start_threads_unlimited(worker_type, limit, here, next_pc) ==
    LET total_threads == _thread_count
        thread == <<worker_type, i + 1>>
    IN  /\ MainRuns /\ main_pc = here
        /\ IF i < total_threads
           THEN /\ _threads' = Append(_threads, thread)
                /\ pc' = [pc EXCEPT ![thread] = "check"]
                /\ i' = i + 1
                /\ UNCHANGED main_pc
           ELSE /\ main_pc' = next_pc /\ i' = 0
                /\ UNCHANGED <<_threads, pc>>
        /\ UNCHANGED <<config, _files, _folders, _synapse_folders,
                       _work_queue, _thread_lock, _is_canceling, ret, path,
                       folder_num, folder_path, sig, exit_thread, job,
                       attempt_number, syn_file, temp_dir, synapse, manifest,
                       hist>>

\* one round of the loop of start_threads(worker_type, limit), entered at
\* main_pc = here and left for next_pc
start_threads(worker_type, limit, here, next_pc) ==
    LET total_threads == IF _thread_count > limit THEN limit
                         ELSE _thread_count
        thread == <<worker_type, i + 1>>
    IN  /\ MainRuns /\ main_pc = here
        /\ IF i < total_threads
           THEN /\ _threads' = Append(_threads, thread)
                /\ pc' = [pc EXCEPT ![thread] = "check"]
                /\ i' = i + 1
                /\ UNCHANGED main_pc
           ELSE /\ main_pc' = next_pc /\ i' = 0
                /\ UNCHANGED <<_threads, pc>>
        /\ UNCHANGED <<config, _files, _folders, _synapse_folders,
                       _work_queue, _thread_lock, _is_canceling, ret, path,
                       folder_num, folder_path, sig, exit_thread, job,
                       attempt_number, syn_file, temp_dir, synapse, manifest, hist>>

LoadStartThreads ==
    start_threads("FileMetadataWorker", _thread_count,
                  "load_start_threads", "walk")

\* one file of the os.walk loop of load_files; after the last one
\* wait_for_threads is entered
Walk ==
    /\ MainRuns /\ main_pc = "walk"
    /\ IF i < Len(disk)
       THEN LET file == disk[i + 1]
                file_info == [ name |-> file.name, full_path |-> i + 1,
                               calculated_name |-> file.name,
                               annotations |-> {} ]
            IN  /\ i' = i + 1
                /\ IF file.size < 1
                   THEN UNCHANGED <<_files, _work_queue>>
                   ELSE /\ _files' = Append(_files, file_info)
                        /\ _work_queue' =
                              Append(_work_queue,
                                     [kind |-> "file_info",
                                      f |-> Len(_files) + 1])
                /\ UNCHANGED <<main_pc, ret>>
       ELSE /\ main_pc' = "wait_empty" /\ ret' = "dedup"
            /\ UNCHANGED <<i, _files, _work_queue>>
    /\ UNCHANGED <<config, _folders, _synapse_folders, _thread_lock,
                   _threads, _is_canceling, path, folder_num, folder_path,
                   sig, workers, temp_dir, synapse, manifest, hist>>

\* a wait_for_threads that does not wait for the queue to empty
WaitWithoutDrain ==
    /\ MainRuns /\ main_pc = "wait_empty"
    /\ main_pc' = "signal_exit" /\ i' = 0
    /\ UNCHANGED <<config, shared, ret, path, folder_num, folder_path, sig,
                   workers, temp_dir, synapse, manifest, hist>>

\* wait_for_threads: the queue is observed empty
WaitEmpty ==
    /\ MainRuns /\ main_pc = "wait_empty"
    /\ _work_queue = <<>>
    /\ main_pc' = "signal_exit" /\ i' = 0
    /\ UNCHANGED <<config, shared, ret, path, folder_num, folder_path, sig,
                   workers, temp_dir, synapse, manifest, hist>>

\* wait_for_threads: one round of "for t in self._threads: t.exit()"
SignalExit ==
    /\ MainRuns /\ main_pc = "signal_exit"
    /\ IF i < Len(_threads)
       THEN /\ exit_thread' = [exit_thread EXCEPT ![_threads[i + 1]] = TRUE]
            /\ i' = i + 1
            /\ UNCHANGED main_pc
       ELSE /\ main_pc' = "join"
            /\ UNCHANGED <<i, exit_thread>>
    /\ UNCHANGED <<config, shared, ret, path, folder_num, folder_path, sig,
                   pc, job, attempt_number, syn_file, temp_dir, synapse, manifest, hist>>

\* a wait_for_threads that resets the thread list without joining
JoinWithoutWaiting ==
    /\ MainRuns /\ main_pc = "join"
    /\ _threads' = <<>>
    /\ main_pc' = ret
    /\ UNCHANGED <<config, _files, _folders, _synapse_folders, _work_queue,
                   _thread_lock, _is_canceling, ret, i, path, folder_num,
                   folder_path, sig, workers, temp_dir, synapse, manifest, hist>>

\* wait_for_threads: every join has returned, the thread list is reset
Join ==
    /\ MainRuns /\ main_pc = "join"
    /\ \A k \in 1..Len(_threads) : Terminated(_threads[k])
    /\ _threads' = <<>>
    /\ main_pc' = ret
    /\ UNCHANGED <<config, _files, _folders, _synapse_folders, _work_queue,
                   _thread_lock, _is_canceling, ret, i, path, folder_num,
                   folder_path, sig, workers, temp_dir, synapse, manifest, hist>>

\* load_files after wait_for_threads: deduplication and sharding; start()
\* then enters create_manifest or upload_files
LoadFilesTail ==
    /\ MainRuns /\ main_pc = "dedup"
    /\ _files' = UniqueNames(_files)
    /\ _folders' = Shards(Len(_files), _folder_depth)
    /\ main_pc' = (IF _create_manifest_only THEN "create_remote_path"
                   ELSE "upload_start_threads")
    /\ i' = 0
    /\ UNCHANGED <<config, _synapse_folders, _work_queue, _thread_lock,
                   _threads, _is_canceling, ret, path, folder_num,
                   folder_path, sig, workers, temp_dir, synapse, manifest, hist>>

UploadStartThreads ==
    start_threads("UploadWorker", Len(_files),
                  "upload_start_threads", "create_remote_path")

\* one round of the loop of create_remote_path; after the last one
\* queue_file_uploads is entered, or create_manifest goes on
CreateRemotePath ==
    /\ MainRuns /\ main_pc = "create_remote_path"
    /\ LET folders == IF _remote_path = NONE THEN <<>>
                      ELSE SelectSeq(Split(_remote_path, SEP), NonEmpty)
       IN  IF i < Len(folders)
           THEN /\ path' = PathJoin2(path, folders[i + 1])
                /\ i' = i + 1
                /\ \E store_ok \in BOOLEAN :
                      create_folder_in_synapse(path', store_ok,
                                               "create_remote_path")
                /\ UNCHANGED folder_num
           ELSE /\ main_pc' = (IF _create_manifest_only THEN "manifest_keys"
                               ELSE "queue")
                /\ folder_num' = 0
                /\ UNCHANGED <<i, path, _synapse_folders, synapse, hist>>
    /\ UNCHANGED <<config, _files, _folders, _work_queue, _thread_lock,
                   _threads, _is_canceling, ret, folder_path, sig, workers,
                   temp_dir, manifest>>

\* a padding width without its minimum of 2
folder_name_padding_unbounded == Len(Str(Len(_folders)))

\* len(str(total_folders)), at least 2
folder_name_padding ==
    IF Len(Str(Len(_folders))) < 2 THEN 2 ELSE Len(Str(Len(_folders)))

\* a folder_path that names every numbered folder after the first shard
ShardFolderPathOfFirst(num) ==
    LET root == IF _remote_path = NONE THEN <<>> ELSE _remote_path
    IN  IF Len(_folders) > 1
        THEN PathJoin2(root, ZFill(Str(1), folder_name_padding))
        ELSE root

\* the folder_path of the folder_num-th list of self._folders
ShardFolderPath(num) ==
    LET root == IF _remote_path = NONE THEN <<>> ELSE _remote_path
    IN  IF Len(_folders) > 1
        THEN PathJoin2(root, ZFill(Str(num), folder_name_padding))
        ELSE root

\* queue_file_uploads: the head of one round of "for files in self._folders"
\* up to the acquire; after the last round wait_for_threads is entered
QueueFolder ==
    /\ MainRuns /\ main_pc = "queue"
    /\ IF folder_num < Len(_folders)
       THEN /\ folder_num' = folder_num + 1
            /\ folder_path' = ShardFolderPath(folder_num')
            /\ IF Len(_folders) > 1
               THEN \E store_ok \in BOOLEAN :
                       create_folder_in_synapse(folder_path', store_ok,
                                                "queue_acquire")
               ELSE /\ main_pc' = "queue_acquire"
                    /\ UNCHANGED <<_synapse_folders, synapse, hist>>
            /\ UNCHANGED ret
       ELSE /\ main_pc' = "wait_empty" /\ ret' = "done"
            /\ UNCHANGED <<folder_num, folder_path, _synapse_folders,
                           synapse, hist>>
    /\ UNCHANGED <<config, _files, _folders, _work_queue, _thread_lock,
                   _threads, _is_canceling, i, path, sig, workers, temp_dir,
                   manifest>>

\* queue_file_uploads: self._thread_lock.acquire()
QueueAcquire ==
    /\ MainRuns /\ main_pc = "queue_acquire"
    /\ _thread_lock = Unlocked
    /\ _thread_lock' = MainThread
    /\ main_pc' = "queue_put"
    /\ UNCHANGED <<config, _files, _folders, _synapse_folders, _work_queue,
                   _threads, _is_canceling, ret, i, path, folder_num,
                   folder_path, sig, workers, temp_dir, synapse, manifest, hist>>

\* queue_file_uploads: the puts of one list of files, made with the lock held
QueuePut ==
    /\ MainRuns /\ main_pc = "queue_put"
    /\ LET files == _folders[folder_num]
       IN  _work_queue' = _work_queue \o
              [k \in 1..Len(files) |->
                  [kind |-> "folder_obj", folder_path |-> folder_path,
                   f |-> files[k]]]
    /\ main_pc' = "queue_release"
    /\ UNCHANGED <<config, _files, _folders, _synapse_folders, _thread_lock,
                   _threads, _is_canceling, ret, i, path, folder_num,
                   folder_path, sig, workers, temp_dir, synapse, manifest, hist>>

\* queue_file_uploads: self._thread_lock.release()
QueueRelease ==
    /\ MainRuns /\ main_pc = "queue_release"
    /\ _thread_lock' = Unlocked
    /\ main_pc' = "queue"
    /\ UNCHANGED <<config, _files, _folders, _synapse_folders, _work_queue,
                   _threads, _is_canceling, ret, i, path, folder_num,
                   folder_path, sig, workers, temp_dir, synapse, manifest, hist>>

\* ----------------------------------------------------------- create_manifest

\* create_manifest after create_remote_path: the column list is
\* ['path', ...] + DICOM_ANNOTATION_FIELDS.keys(), a TypeError where keys()
\* is not a list; then the file is opened and the header written
ManifestKeys ==
    /\ MainRuns /\ main_pc = "manifest_keys"
    /\ main_pc' = (IF interpreter = "python2" THEN "manifest_folder"
                   ELSE "crashed")
    /\ folder_num' = 0
    /\ UNCHANGED <<config, shared, ret, i, path, folder_path, sig, workers,
                   temp_dir, synapse, manifest, hist>>

\* create_manifest: the head of one round of "for files in self._folders";
\* after the last round start() returns
ManifestFolder ==
    /\ MainRuns /\ main_pc = "manifest_folder"
    /\ IF folder_num < Len(_folders)
       THEN /\ folder_num' = folder_num + 1
            /\ folder_path' = ShardFolderPath(folder_num')
            /\ IF Len(_folders) > 1
               THEN \E store_ok \in BOOLEAN :
                       create_folder_in_synapse(folder_path', store_ok,
                                                "manifest_rows")
               ELSE /\ main_pc' = "manifest_rows"
                    /\ UNCHANGED <<_synapse_folders, synapse, hist>>
       ELSE /\ main_pc' = "done"
            /\ UNCHANGED <<folder_num, folder_path, _synapse_folders,
                           synapse, hist>>
    /\ UNCHANGED <<config, _files, _folders, _work_queue, _thread_lock,
                   _threads, _is_canceling, ret, i, path, sig, workers,
                   temp_dir, manifest>>

\* the row of create_manifest for the file record f under folder_path
ManifestRow(f) ==
    LET file_info == _files[f]
        sp == to_synapse_path(<<PathJoin2(folder_path,
                                          file_info.calculated_name)>>)
    IN  [ path |-> file_info.full_path,
          found |-> sp.found,
          parent |-> IF sp.found THEN _synapse_folders[sp.synapse_parent_path]
                     ELSE NONE,
          forceVersion |-> TRUE,
          name |-> file_info.calculated_name,
          annotations |-> file_info.annotations ]

\* create_manifest: "for file_info in files" of one list of files; the rows
\* are written up to the first one whose parent lookup raises KeyError, which
\* ends the main thread
ManifestRows ==
    /\ MainRuns /\ main_pc = "manifest_rows"
    /\ LET files == _folders[folder_num]
           raises == {k \in 1..Len(files) : ~ManifestRow(files[k]).found}
           written == IF raises = {} THEN Len(files)
                      ELSE (CHOOSE k \in raises :
                               \A m \in raises : k <= m) - 1
       IN  /\ manifest' = manifest \o
                  [k \in 1..written |-> ManifestRow(files[k])]
           /\ main_pc' = (IF raises = {} THEN "manifest_folder"
                          ELSE "crashed")
    /\ UNCHANGED <<config, shared, ret, i, path, folder_num, folder_path,
                   sig, workers, temp_dir, synapse, hist>>

\* ------------------------------------------------------------------ SIGINT

\* the process exists: the main thread has not ended, or the interpreter is
\* waiting for its non-daemon threads
ProcessAlive ==
    \/ main_pc \notin {"done", "crashed", "exited"}
    \/ \E t \in Threads : Alive(t)

\* an on_sigint without its "if self._is_canceling: return"
OnSigintUnguarded ==
    /\ ProcessAlive
    /\ sig_pc = "idle"
    /\ hist.interrupts < MaxInterrupts
    /\ hist' = [hist EXCEPT !.interrupts = @ + 1]
    /\ _is_canceling' = TRUE
    /\ sig_pc' = "signal" /\ sig_i' = 0
    /\ UNCHANGED <<config, _files, _folders, _synapse_folders, _work_queue,
                   _thread_lock, _threads, main, workers, temp_dir, synapse, manifest>>

\* on_sigint is entered: it returns at once when _is_canceling is set, and
\* sets it otherwise
OnSigint ==
    /\ ProcessAlive
    /\ hist.interrupts < MaxInterrupts
    /\ hist' = [hist EXCEPT !.interrupts = @ + 1]
    /\ IF _is_canceling
       THEN UNCHANGED <<_is_canceling, sig>>
       ELSE /\ _is_canceling' = TRUE
            /\ sig_pc' = "signal" /\ sig_i' = 0
    /\ UNCHANGED <<config, _files, _folders, _synapse_folders, _work_queue,
                   _thread_lock, _threads, main, workers, temp_dir, synapse, manifest>>

\* on_sigint: one round of "for t in self._threads: t.exit()"
SigintSignal ==
    /\ sig_pc = "signal" /\ sig_i < Len(_threads)
    /\ exit_thread' = [exit_thread EXCEPT ![_threads[sig_i + 1]] = TRUE]
    /\ sig_i' = sig_i + 1
    /\ UNCHANGED <<config, shared, main, sig_pc, pc, job, attempt_number,
                   syn_file, temp_dir, synapse, manifest, hist>>

\* on_sigint: sys.exit(1) unwinds the main thread
SigintExit ==
    /\ sig_pc = "signal" /\ sig_i >= Len(_threads)
    /\ sig_pc' = "idle"
    /\ main_pc' = "exited"
    /\ hist' = [hist EXCEPT !.exits = @ + 1]
    /\ UNCHANGED <<config, shared, ret, i, path, folder_num, folder_path,
                   sig_i, workers, temp_dir, synapse, manifest>>

\* ----------------------------------------------------------------- workers

\* a run loop that never tests exit_thread
WorkerCheckNoExit(t) ==
    /\ pc[t] = "check"
    /\ pc' = [pc EXCEPT ![t] = "acquire"]
    /\ UNCHANGED <<config, shared, main, sig, exit_thread, job,
                   attempt_number, syn_file, temp_dir, synapse, manifest, hist>>

\* "while not self.exit_thread" of FileMetadataWorker.run and UploadWorker.run
WorkerCheck(t) ==
    /\ pc[t] = "check"
    /\ pc' = [pc EXCEPT ![t] = IF exit_thread[t] THEN "done" ELSE "acquire"]
    /\ UNCHANGED <<config, shared, main, sig, exit_thread, job,
                   attempt_number, syn_file, temp_dir, synapse, manifest, hist>>

\* a worker that makes its emptiness test without acquiring the lock
WorkerTestWithoutLock(t) ==
    /\ pc[t] = "acquire"
    /\ pc' = [pc EXCEPT ![t] = IF _work_queue # <<>> THEN "get" ELSE "check"]
    /\ UNCHANGED <<config, shared, main, sig, exit_thread, job,
                   attempt_number, syn_file, temp_dir, synapse, manifest,
                   hist>>

\* self._lock.acquire() and "if not self._queue.empty()": on an empty queue
\* the lock is released at once and the worker sleeps
WorkerAcquire(t) ==
    /\ pc[t] = "acquire"
    /\ _thread_lock = Unlocked
    /\ IF _work_queue # <<>>
       THEN /\ pc' = [pc EXCEPT ![t] = "get"]
            /\ _thread_lock' = t
       ELSE /\ pc' = [pc EXCEPT ![t] = "check"]
            /\ UNCHANGED _thread_lock
    /\ UNCHANGED <<config, _files, _folders, _synapse_folders, _work_queue,
                   _threads, _is_canceling, main, sig, exit_thread, job,
                   attempt_number, syn_file, temp_dir, synapse, manifest, hist>>

\* on_sigint has set _is_canceling and has called exit() on every thread of
\* self._threads
HandlerSignaledAll ==
    _is_canceling /\ (sig_pc = "idle" \/ sig_i >= Len(_threads))

\* self._queue.get() (it blocks on an empty queue) and self._lock.release()
WorkerGet(t) ==
    /\ pc[t] = "get"
    /\ _work_queue # <<>>
    /\ job' = [job EXCEPT ![t] = Head(_work_queue)]
    /\ _work_queue' = Tail(_work_queue)
    /\ _thread_lock' = Unlocked
    /\ pc' = [pc EXCEPT ![t] = "process"]
    /\ LET item == Head(_work_queue)
           late == IF HandlerSignaledAll THEN 1 ELSE 0
       IN  hist' = IF item.kind = "file_info"
                   THEN [hist EXCEPT !.meta_gets[item.f] = @ + 1,
                                     !.late_gets[t] = @ + late]
                   ELSE [hist EXCEPT !.job_gets[item.f] = @ + 1,
                                     !.late_gets[t] = @ + late]
    /\ UNCHANGED <<config, _files, _folders, _synapse_folders, _threads,
                   _is_canceling, main, sig, exit_thread, attempt_number,
                   syn_file, temp_dir, synapse, manifest>>

LowerChar(c) ==
    CASE c = "D" -> "d" [] c = "C" -> "c" [] c = "M" -> "m" [] OTHER -> c

\* s.lower()
Lower(s) == [k \in 1..Len(s) |-> LowerChar(s[k])]

\* s.endswith(suffix)
EndsWith(s, suffix) ==
    /\ Len(s) >= Len(suffix)
    /\ SubSeq(s, Len(s) - Len(suffix) + 1, Len(s)) = suffix

\* add_metadata(file_info) on the record: a .dcm file that pydicom reads gets
\* its computed name and annotations, any other record is left as it is
add_metadata(file_info) ==
    LET ds == disk[file_info.full_path].ds
    IN  IF EndsWith(Lower(file_info.name), <<".", "d", "c", "m">>)
           /\ ds # NoDataset
        THEN [file_info EXCEPT
                !.calculated_name =
                    Replace(Format2(ds.PatientID,
                                    Format2(ds.StudyDate, file_info.name)),
                            "-", "_"),
                !.annotations = {"PatientID", "StudyDate"}]
        ELSE file_info

\* FileMetadataWorker.run: self.add_metadata(file_info), then the sleep
MetadataProcess(t) ==
    /\ t[1] = "FileMetadataWorker" /\ pc[t] = "process"
    /\ IF job[t].kind = "file_info"
       THEN /\ _files' = [_files EXCEPT ![job[t].f] = add_metadata(@)]
            /\ hist' = [hist EXCEPT !.metadata_done = @ \cup {job[t].f}]
            /\ pc' = [pc EXCEPT ![t] = "check"]
       ELSE /\ pc' = [pc EXCEPT ![t] = "crashed"]
            /\ UNCHANGED <<_files, hist>>
    /\ job' = [job EXCEPT ![t] = NoJob]
    /\ UNCHANGED <<config, _folders, _synapse_folders, _work_queue,
                   _thread_lock, _threads, _is_canceling, main, sig,
                   exit_thread, attempt_number, syn_file, temp_dir, synapse, manifest>>

\* the staging path of the job of t (the name stands for temp_dir/name)
temp_file(t) == _files[job[t].f].calculated_name

\* upload_file_to_synapse up to the retry loop: shutil.copyfile(full_file_name,
\* temp_file), then to_synapse_path(synapse_folder_path, filename), whose
\* KeyError ends the thread; in a dry run the retry loop is skipped
UploadCopy(t) ==
    /\ t[1] = "UploadWorker" /\ pc[t] = "process"
    /\ IF job[t].kind = "folder_obj"
       THEN /\ temp_dir' = temp_dir \cup {temp_file(t)}
            /\ IF to_synapse_path(<<job[t].folder_path, temp_file(t)>>).found
               THEN /\ pc' = [pc EXCEPT ![t] = IF _dry_run THEN "remove"
                                               ELSE "retry"]
                    /\ attempt_number' =
                          IF _dry_run THEN attempt_number
                          ELSE [attempt_number EXCEPT ![t] = 1]
                    /\ syn_file' = [syn_file EXCEPT ![t] = FALSE]
               ELSE /\ pc' = [pc EXCEPT ![t] = "crashed"]
                    /\ UNCHANGED <<attempt_number, syn_file>>
       ELSE /\ pc' = [pc EXCEPT ![t] = "crashed"]
            /\ UNCHANGED <<temp_dir, attempt_number, syn_file>>
    /\ hist' = IF job[t].kind = "folder_obj"
               THEN [hist EXCEPT !.reads = @ + 1] ELSE hist
    /\ UNCHANGED <<config, shared, main, sig, exit_thread, job, synapse,
                   manifest>>

\* the condition of the retry loop
RetryCondition(t) ==
    attempt_number[t] <= max_attempts /\ ~syn_file[t] /\ ~exit_thread[t]

\* a retry loop that sleeps after every failed attempt
AlwaysSleeps(attempt) == TRUE

\* whether the thread sleeps after a failed attempt
SleepsAfterFailure(attempt) == attempt <= max_attempts

\* one test of the retry loop. When it holds, one pass of the try block: the
\* attempt is counted, the store call returns or raises (it raises when the
\* staging file is gone), and after a failure the thread sleeps unless it was
\* the last attempt. When it does not hold, 'Failed to upload file' is logged
\* unless the file was stored.
UploadRetry(t) ==
    /\ pc[t] = "retry"
    /\ IF RetryCondition(t)
       THEN /\ attempt_number' = [attempt_number EXCEPT ![t] = @ + 1]
            /\ UNCHANGED pc
            /\ \E returns \in (IF temp_file(t) \in temp_dir THEN BOOLEAN
                               ELSE {FALSE}) :
                  LET f == job[t].f
                  IN  IF returns
                      THEN /\ syn_file' = [syn_file EXCEPT ![t] = TRUE]
                           /\ hist' = [hist EXCEPT !.stored[f] = @ + 1]
                      ELSE /\ UNCHANGED syn_file
                           /\ hist' = [hist EXCEPT
                                !.delay[t] =
                                    IF SleepsAfterFailure(attempt_number'[t])
                                    THEN @ + RETRY_DELAY ELSE @]
       ELSE /\ pc' = [pc EXCEPT ![t] = "remove"]
            /\ hist' = IF ~syn_file[t]
                       THEN [hist EXCEPT !.failed = @ \cup {job[t].f}]
                       ELSE hist
            /\ UNCHANGED <<attempt_number, syn_file>>
    /\ UNCHANGED <<config, shared, main, sig, exit_thread, job, temp_dir,
                   synapse, manifest>>

\* os.remove(temp_file) (FileNotFoundError ends the thread), then the sleep
UploadRemove(t) ==
    /\ pc[t] = "remove"
    /\ IF temp_file(t) \in temp_dir
       THEN /\ temp_dir' = temp_dir \ {temp_file(t)}
            /\ pc' = [pc EXCEPT ![t] = "check"]
            /\ hist' = [hist EXCEPT !.finished = @ \cup {job[t].f},
                                    !.delay[t] = 0]
            /\ job' = [job EXCEPT ![t] = NoJob]
            /\ attempt_number' = [attempt_number EXCEPT ![t] = 0]
            /\ syn_file' = [syn_file EXCEPT ![t] = FALSE]
       ELSE /\ pc' = [pc EXCEPT ![t] = "crashed"]
            /\ UNCHANGED <<temp_dir, hist, job, attempt_number, syn_file>>
    /\ UNCHANGED <<config, shared, main, sig, exit_thread, synapse, manifest>>

\* ----------------------------------------------------------- specification

Next ==
    \/ Start
    \/ LoadStartThreads
    \/ Walk
    \/ WaitEmpty
    \/ SignalExit
    \/ Join
    \/ LoadFilesTail
    \/ UploadStartThreads
    \/ CreateRemotePath
    \/ QueueFolder
    \/ QueueAcquire
    \/ QueuePut
    \/ QueueRelease
    \/ ManifestKeys
    \/ ManifestFolder
    \/ ManifestRows
    \/ OnSigint
    \/ SigintSignal
    \/ SigintExit
    \/ \E t \in Threads : WorkerCheck(t)
    \/ \E t \in Threads : WorkerAcquire(t)
    \/ \E t \in Threads : WorkerGet(t)
    \/ \E t \in Threads : MetadataProcess(t)
    \/ \E t \in Threads : UploadCopy(t)
    \/ \E t \in Threads : UploadRetry(t)
    \/ \E t \in Threads : UploadRemove(t)

Spec == Init /\ [][Next]_vars

\* the runs in which no SIGINT is delivered
NextNoSigint ==
    \/ Start
    \/ LoadStartThreads
    \/ Walk
    \/ WaitEmpty
    \/ SignalExit
    \/ Join
    \/ LoadFilesTail
    \/ UploadStartThreads
    \/ CreateRemotePath
    \/ QueueFolder
    \/ QueueAcquire
    \/ QueuePut
    \/ QueueRelease
    \/ ManifestKeys
    \/ ManifestFolder
    \/ ManifestRows
    \/ \E t \in Threads : WorkerCheck(t)
    \/ \E t \in Threads : WorkerAcquire(t)
    \/ \E t \in Threads : WorkerGet(t)
    \/ \E t \in Threads : MetadataProcess(t)
    \/ \E t \in Threads : UploadCopy(t)
    \/ \E t \in Threads : UploadRetry(t)
    \/ \E t \in Threads : UploadRemove(t)

SpecNoSigint == Init /\ [][NextNoSigint]_vars

\* the runs of the interrupt handler: any thread count that starts workers,
\* files of one name, a remote path of at most one folder
InitSigint ==
    /\ _thread_count \in 1..MaxThreads
    /\ _dry_run \in BOOLEAN
    /\ _folder_depth \in 1..MaxDepth
    /\ _remote_path \in {NONE, <<"r">>}
    /\ _create_manifest_only \in BOOLEAN
    /\ interpreter \in Interpreters(_create_manifest_only)
    /\ disk \in SeqsUpTo({[name |-> <<"a">>, size |-> 1, ds |-> NoDataset]},
                         MaxWalk)
    /\ InitRun

SpecSigint == InitSigint /\ [][Next]_vars

\* the run on two files named a (in two directories) and one named 1_a, with
\* two threads and the default folder depth
InitDuplicate ==
    /\ _thread_count = MaxThreads
    /\ _dry_run = FALSE
    /\ _folder_depth = MAX_SYNAPSE_DEPTH
    /\ _remote_path = NONE
    /\ _create_manifest_only \in BOOLEAN
    /\ interpreter \in Interpreters(_create_manifest_only)
    /\ disk = << [name |-> <<"a">>, size |-> 1, ds |-> NoDataset],
                 [name |-> <<"a">>, size |-> 1, ds |-> NoDataset],
                 [name |-> <<"1", "_", "a">>, size |-> 1, ds |-> NoDataset] >>
    /\ InitRun

SpecDuplicate == InitDuplicate /\ [][NextNoSigint]_vars

\* ------------------------------------------- deduplication and sharding alone

LoadNames == { <<"a">>, <<"b">>, <<"1", "_", "a">> }

LoadDepths == (1..MaxLoadDepth) \cup {MAX_SYNAPSE_DEPTH}

\* load_files at its deduplication step, for every list of file records
\* whose computed names are drawn from LoadNames
InitLoad ==
    /\ _thread_count \in {1}
    /\ _dry_run \in {FALSE}
    /\ _folder_depth \in LoadDepths
    /\ _remote_path \in {NONE}
    /\ _create_manifest_only \in {FALSE}
    /\ interpreter \in Interpreters(_create_manifest_only)
    /\ \E names \in SeqsUpTo(LoadNames, MaxLoadFiles) :
          /\ disk = [k \in 1..Len(names) |->
                        [name |-> names[k], size |-> 1, ds |-> NoDataset]]
          /\ _files = [k \in 1..Len(names) |->
                        [name |-> names[k], full_path |-> k,
                         calculated_name |-> names[k], annotations |-> {}]]
    /\ _folders = <<>>
    /\ _synapse_folders = set_synapse_folder(<<>>, synapse_project, ProjectId)
    /\ _work_queue = <<>>
    /\ _thread_lock = Unlocked
    /\ _threads = <<>>
    /\ _is_canceling = FALSE
    /\ main_pc = "dedup" /\ ret = "dedup" /\ i = 0 /\ path = <<>>
    /\ folder_num = 0 /\ folder_path = <<>>
    /\ sig_pc = "idle" /\ sig_i = 0
    /\ pc = [t \in Threads |-> IF t = <<"FileMetadataWorker", 1>>
                               THEN "done" ELSE "new"]
    /\ exit_thread = [t \in Threads |-> t = <<"FileMetadataWorker", 1>>]
    /\ job = [t \in Threads |-> NoJob]
    /\ attempt_number = [t \in Threads |-> 0]
    /\ syn_file = [t \in Threads |-> FALSE]
    /\ temp_dir = {}
    /\ synapse = <<>>
    /\ manifest = <<>>
    /\ hist = InitHist

SpecLoad == InitLoad /\ [][LoadFilesTail]_vars

\* ---------------------------------------------------- the main thread alone

\* the end of load_files (one discovery worker, which has ended) for every
\* number n of files named a (in as many directories) and the remote path r:
\* the records are renamed 1_a .. n_a when n > 1 and sharded in order
InitShards ==
    /\ _thread_count = 1
    /\ _dry_run = FALSE
    /\ _folder_depth \in 1..MaxDepth
    /\ _remote_path = <<"r">>
    /\ _create_manifest_only \in BOOLEAN
    /\ interpreter \in Interpreters(_create_manifest_only)
    /\ \E n \in 1..MaxShardFiles :
          /\ disk = [k \in 1..n |->
                        [name |-> <<"a">>, size |-> 1, ds |-> NoDataset]]
          /\ _files = [k \in 1..n |->
                        [name |-> <<"a">>, full_path |-> k,
                         calculated_name |->
                            IF n > 1 THEN Format2(Str(k), <<"a">>)
                            ELSE <<"a">>,
                         annotations |-> {}]]
          /\ _folders =
                [num \in 1..((n + _folder_depth - 1) \div _folder_depth) |->
                    Slice(n, (num - 1) * _folder_depth, num * _folder_depth)]
    /\ _synapse_folders = set_synapse_folder(<<>>, synapse_project, ProjectId)
    /\ _work_queue = <<>>
    /\ _thread_lock = Unlocked
    /\ _threads = <<>>
    /\ _is_canceling = FALSE
    /\ main_pc = (IF _create_manifest_only THEN "create_remote_path"
                  ELSE "upload_start_threads")
    /\ ret = "dedup" /\ i = 0 /\ path = <<>>
    /\ folder_num = 0 /\ folder_path = <<>>
    /\ sig_pc = "idle" /\ sig_i = 0
    /\ pc = [t \in Threads |-> IF t = <<"FileMetadataWorker", 1>>
                               THEN "done" ELSE "new"]
    /\ exit_thread = [t \in Threads |-> t = <<"FileMetadataWorker", 1>>]
    /\ job = [t \in Threads |-> NoJob]
    /\ attempt_number = [t \in Threads |-> 0]
    /\ syn_file = [t \in Threads |-> FALSE]
    /\ temp_dir = {}
    /\ synapse = <<>>
    /\ manifest = <<>>
    /\ hist = InitHist

\* the steps of the main thread after load_files, in the runs in which the
\* upload workers it starts have not been scheduled yet
NextMain ==
    \/ UploadStartThreads
    \/ CreateRemotePath
    \/ QueueFolder
    \/ QueueAcquire
    \/ QueuePut
    \/ QueueRelease
    \/ ManifestKeys
    \/ ManifestFolder
    \/ ManifestRows

SpecShards == InitShards /\ [][NextMain]_vars

\* ------------------------------------------------------------------ claims

\* load_files has run its deduplication and sharding step
Deduplicated == main_pc = "upload_start_threads"

\* C2: after the deduplication step of load_files no two file records share
\* the same calculated_name.
C2_NamesPairwiseDistinct ==
    Deduplicated =>
        \A m, n \in 1..Len(_files) :
            m # n => _files[m].calculated_name # _files[n].calculated_name

RECURSIVE Concat(_)
Concat(lists) == IF lists = <<>> THEN <<>>
                 ELSE Head(lists) \o Concat(Tail(lists))

\* C9: for N files and folder_depth C, load_files produces ceil(N/C) shards,
\* every shard holds between 1 and C files, and the shards concatenated in
\* order are the file list in discovery order.
C9_Sharding ==
    Deduplicated =>
        /\ Len(_folders) = (Len(_files) + _folder_depth - 1) \div _folder_depth
        /\ \A k \in 1..Len(_folders) :
              Len(_folders[k]) >= 1 /\ Len(_folders[k]) <= _folder_depth
        /\ Concat(_folders) = [k \in 1..Len(_files) |-> k]

\* two shards of depth 3, the last one not full
C9_Witness ==
    /\ Deduplicated
    /\ Len(_folders) = 2 /\ _folder_depth = 3
    /\ Len(_folders[1]) = 3 /\ Len(_folders[2]) = 1

UploadWorkers == {t \in Threads : t[1] = "UploadWorker"}
MetadataWorkers == {t \in Threads : t[1] = "FileMetadataWorker"}

\* the store calls made so far for the job of t, and those that raised
StoreCalls(t) == attempt_number[t] - 1
StoreFailures(t) == StoreCalls(t) - (IF syn_file[t] THEN 1 ELSE 0)

\* C1: in an upload run with no interrupt, a job whose store call fails k < 5
\* times and would succeed on the next call gets exactly k + 1 store calls and
\* is stored exactly once, not reported as failed: when the worker leaves the
\* retry loop after fewer than 5 failures, the file has been stored by call
\* k + 1.
C1_RetriedUntilStored ==
    \A t \in UploadWorkers :
        (~_dry_run /\ pc[t] = "remove" /\ StoreFailures(t) < max_attempts) =>
            /\ StoreCalls(t) = StoreFailures(t) + 1
            /\ hist.stored[job[t].f] = 1
            /\ job[t].f \notin hist.failed

\* C3: the staging copy is removed on every exit path of
\* upload_file_to_synapse: whenever no worker is between its copyfile and its
\* os.remove, the staging directory holds no file.
C3_StagingRemoved ==
    (\A t \in UploadWorkers : pc[t] \notin {"retry", "remove"}) =>
        temp_dir = {}

\* C4 (state part): at most 5 store calls per job, the file stored at most
\* once, and the 3-unit delay slept after every failed attempt but the 5th
C4_Counts ==
    \A t \in UploadWorkers :
        (~_dry_run /\ pc[t] \in {"retry", "remove"}) =>
            /\ StoreCalls(t) \in 0..max_attempts
            /\ hist.stored[job[t].f] = (IF syn_file[t] THEN 1 ELSE 0)
            /\ hist.delay[t] =
                  RETRY_DELAY * Min(StoreFailures(t), max_attempts - 1)

\* C4 (step part): no store call is made for a job after one has returned
C4_NoCallAfterSuccess ==
    \A t \in UploadWorkers :
        (pc[t] = "retry" /\ syn_file[t]) =>
            /\ attempt_number'[t] # attempt_number[t] + 1
            /\ hist'.stored[job[t].f] = hist.stored[job[t].f]

\* C4: for each job a worker calls the remote store at most 5 times, makes no
\* further call after the first successful one, and waits the fixed 3-unit
\* delay after every failed attempt that is followed by another attempt (no
\* wait after the 5th failure).
C4_RetryLoop == [] C4_Counts /\ [][C4_NoCallAfterSuccess]_vars

\* five failed attempts, four delays, while the thread was not told to exit
C4_Witness ==
    \E t \in UploadWorkers :
        /\ pc[t] = "remove" /\ StoreCalls(t) = max_attempts /\ ~syn_file[t]
        /\ hist.delay[t] = RETRY_DELAY * (max_attempts - 1)
        /\ ~exit_thread[t]

\* C5: when all 5 store attempts of a job fail, the worker records the
\* per-file failure, stays alive and goes on to its next job, and the jobs
\* still in the queue are processed: a worker that has left the retry loop
\* after 5 failures has logged the failure and has not died, and a run that
\* completes has dequeued every job.
C5_FailureIsLocal ==
    /\ \A t \in UploadWorkers :
          (attempt_number[t] > max_attempts /\ ~syn_file[t]
                /\ pc[t] # "retry") =>
              job[t].f \in hist.failed /\ pc[t] # "crashed"
    /\ main_pc = "done" =>
          \A f \in 1..Len(_files) : hist.job_gets[f] = 1

\* C6 (as claimed): once the handler has signaled every active worker, no
\* worker dequeues a further job.
C6_NoDequeueAfterSignal == \A t \in Threads : hist.late_gets[t] = 0

\* C6 (amended, step part): a worker that makes its loop test after it was
\* told to exit ends without acquiring the lock
C6_SignaledWorkerEnds ==
    \A t \in Threads :
        (pc[t] = "check" /\ exit_thread[t]) => pc'[t] \in {"check", "done"}

\* C6 (amended): once the handler has signaled every active worker, each
\* worker dequeues at most one further job (a worker that had passed its
\* "while not self.exit_thread" test before it was signaled), and a worker
\* that makes the test after the signal dequeues nothing more.
C6_AtMostOneLateDequeue ==
    /\ [] (\A t \in Threads : hist.late_gets[t] <= 1)
    /\ [][C6_SignaledWorkerEnds]_vars

\* a worker took one job after the signal and ended, leaving a job queued
C6_Witness ==
    \E t \in Threads :
        /\ hist.late_gets[t] = 1 /\ pc[t] = "done"
        /\ _work_queue # <<>>
        /\ main_pc = "exited"

\* C7 (state part): at most one exit; after it the flag is set, the main
\* thread has ended and every thread of the list has been told to exit
C7_ExitOnce ==
    /\ hist.exits <= 1
    /\ hist.exits = 1 =>
          /\ _is_canceling /\ main_pc = "exited"
          /\ \A k \in 1..Len(_threads) : exit_thread[_threads[k]]

\* C7 (step part): the flag never goes back; an interrupt that finds it set
\* changes nothing of the program; the one that finds it clear sets it and
\* starts signaling
C7_LaterInterruptsIdle ==
    /\ _is_canceling => _is_canceling'
    /\ (hist'.interrupts # hist.interrupts /\ _is_canceling) =>
          /\ UNCHANGED <<config, shared, main, sig, workers, temp_dir, synapse, manifest>>
          /\ hist'.exits = hist.exits
    /\ (hist'.interrupts # hist.interrupts /\ ~_is_canceling) =>
          _is_canceling' /\ sig_pc' = "signal"

\* C7: the cancellation state changes from running to canceling at most once
\* and never back: the first interrupt sets _is_canceling, signals the workers
\* and exits with status 1; every later interrupt finds the flag set and is a
\* no-op.
C7_CancelOnce == [] C7_ExitOnce /\ [][C7_LaterInterruptsIdle]_vars

\* a second interrupt was delivered after the exit, with a worker still alive
C7_Witness ==
    /\ hist.interrupts = 2 /\ hist.exits = 1
    /\ \E t \in Threads : Alive(t)

\* C8: the two phases are strictly sequential: when deduplication starts,
\* every discovered file record has been dequeued once and its metadata
\* extraction has finished, the queue is empty and every discovery worker has
\* terminated; no FileMetadataWorker is alive while an UploadWorker is alive;
\* the queue never holds discovery items and upload jobs together.
C8_PhasesSequential ==
    /\ main_pc = "dedup" =>
          /\ \A f \in 1..Len(_files) :
                hist.meta_gets[f] = 1 /\ f \in hist.metadata_done
          /\ _work_queue = <<>>
          /\ \A t \in MetadataWorkers : ~Alive(t)
    /\ ~ \E m \in MetadataWorkers, u \in UploadWorkers : Alive(m) /\ Alive(u)
    /\ ~ \E m, n \in 1..Len(_work_queue) :
            /\ _work_queue[m].kind = "file_info"
            /\ _work_queue[n].kind = "folder_obj"

\* deduplication starts after two workers extracted two files
C8_Witness ==
    /\ main_pc = "dedup" /\ Len(_files) = 2 /\ _thread_count = 2
    /\ hist.metadata_done = {1, 2}

\* C10: each logical path is inserted into _synapse_folders at most once, and
\* only when its parent path is already in the cache.
C10_FolderCache ==
    /\ \A m, n \in 1..Len(hist.created) :
          m # n => hist.created[m] # hist.created[n]
    /\ \A m \in 1..Len(hist.created) :
          /\ hist.created[m] # synapse_project
          /\ Dirname(hist.created[m]) \in
                {synapse_project} \cup {hist.created[n] : n \in 1..(m - 1)}
    /\ (main_pc # "start") =>
          DOMAIN _synapse_folders =
              {synapse_project} \cup {hist.created[n] : n \in 1..Len(hist.created)}

\* two folders of the remote path and two shard folders were created
C10_Witness ==
    /\ Len(hist.created) = 4
    /\ hist.created[4] = <<"P", "/", "r", "/", "q", "/", "0", "2">>

\* the parent lookup of the job (a folder_obj) finds its path in the cache
ParentCached(folder_obj) ==
    to_synapse_path(<<folder_obj.folder_path,
                      _files[folder_obj.f].calculated_name>>).found

\* C11: a job is enqueued only after the full logical path of its shard is in
\* the folder cache: the parent lookup of every job in the queue or in the
\* hands of a worker, and of every row the manifest writer is about to write,
\* finds its path in the cache.
C11_ParentCached ==
    /\ \A k \in 1..Len(_work_queue) :
          _work_queue[k].kind = "folder_obj" => ParentCached(_work_queue[k])
    /\ \A t \in UploadWorkers :
          job[t].kind = "folder_obj" => ParentCached(job[t])
    /\ main_pc = "manifest_rows" =>
          \A k \in 1..Len(_folders[folder_num]) :
              ManifestRow(_folders[folder_num][k]).found

\* C12: when a folder creation fails in upload mode the failure is fatal to
\* the run: the main thread has ended (no retry, no later folder, no later
\* job), and the run ends: every upload worker that is still alive has been
\* told to exit.
C12_FatalEndsRun ==
    (~_create_manifest_only /\ hist.folder_errors > 0) =>
        /\ main_pc = "crashed" /\ hist.folder_errors = 1
        /\ \A t \in UploadWorkers : Alive(t) => exit_thread[t]

\* the full paths create_remote_path caches for the remote path of the run
RemoteFolders ==
    IF _remote_path = NONE THEN <<>>
    ELSE LET folders == SelectSeq(Split(_remote_path, SEP), NonEmpty)
         IN  [k \in 1..Len(folders) |->
                 PathJoin(<<synapse_project>> \o SubSeq(folders, 1, k))]

\* the full paths of the shard folders of the run, in shard order
ShardFolders ==
    IF Len(_folders) > 1
    THEN [num \in 1..Len(_folders) |->
             PathJoin(<<synapse_project, ShardFolderPath(num)>>)]
    ELSE <<>>

\* the folder paths a run on this input caches, in order
ExpectedFolders == RemoteFolders \o ShardFolders

\* C13: in a dry run no store call of a folder or of a file is made, in upload
\* mode and in manifest mode alike, and every folder creation caches the
\* placeholder handle; the folder paths cached are, in a dry run as in a real
\* run, the first ones of the sequence the input determines (all of them when
\* the run completes), and a completed upload run has dequeued every job once.
C13_DryRun ==
    /\ _dry_run =>
          /\ synapse = <<>> /\ hist.folder_errors = 0
          /\ \A f \in Files : hist.stored[f] = 0
          /\ hist.failed = {}
          /\ \A t \in UploadWorkers : attempt_number[t] = 0
          /\ \A q \in DOMAIN _synapse_folders :
                _synapse_folders[q] =
                    (IF q = synapse_project THEN ProjectId ELSE DryRunId)
    /\ hist.created = SubSeq(ExpectedFolders, 1, Len(hist.created))
    /\ main_pc = "done" =>
          /\ hist.created = ExpectedFolders
          /\ ~_create_manifest_only =>
                \A f \in 1..Len(_files) : hist.job_gets[f] = 1

\* a dry upload run that cached four folders and processed two jobs is over
C13_Witness ==
    /\ _dry_run /\ ~_create_manifest_only /\ main_pc = "done"
    /\ Len(hist.created) = 4 /\ hist.finished = {1, 2}

RECURSIVE NumDigits(_)
\* the number of decimal digits of n >= 0
NumDigits(n) == IF n < 10 THEN 1 ELSE 1 + NumDigits(n \div 10)

RECURSIVE Pow10(_)
Pow10(k) == IF k = 0 THEN 1 ELSE 10 * Pow10(k - 1)

\* num written with exactly width decimal digits
PaddedNumber(num, width) ==
    [k \in 1..width |-> Digit[((num \div Pow10(width - k)) % 10) + 1]]

\* the shard the file record f is in
ShardOf(f) ==
    CHOOSE num \in 1..Len(_folders) :
        \E k \in 1..Len(_folders[num]) : _folders[num][k] = f

\* the remote root of the run and the folder the files of shard num go to
RemoteRoot == IF _remote_path = NONE THEN <<>> ELSE _remote_path
NumberedFolder(num) ==
    LET width == IF NumDigits(Len(_folders)) > 2
                 THEN NumDigits(Len(_folders)) ELSE 2
        name == PaddedNumber(num, width)
    IN  IF RemoteRoot = <<>> THEN name ELSE RemoteRoot \o <<SEP>> \o name
ShardContainer(num) ==
    IF Len(_folders) = 1 THEN RemoteRoot ELSE NumberedFolder(num)

\* the full path of the folder the files of shard num go to
ShardContainerPath(num) ==
    IF ShardContainer(num) = <<>> THEN synapse_project
    ELSE synapse_project \o <<SEP>> \o ShardContainer(num)

Occurrences(seq, x) == Cardinality({m \in 1..Len(seq) : seq[m] = x})

\* C14: with one shard no numbered folder is created and every job targets
\* the remote root; with S > 1 shards the i-th shard has its own folder named
\* i zero-padded to width max(2, digits of S), created exactly once (before
\* its jobs are enqueued or its rows written), and every job of the shard
\* targets it (the folder of the shard at hand is the folder of no other
\* shard); a manifest row carries the handle of the same folder.
C14_ShardPlacement ==
    /\ \A k \in 1..Len(_work_queue) :
          _work_queue[k].kind = "folder_obj" =>
              LET num == ShardOf(_work_queue[k].f)
              IN  /\ _work_queue[k].folder_path = ShardContainer(num)
                  /\ Len(_folders) > 1 =>
                        Occurrences(hist.created, ShardContainerPath(num)) = 1
    /\ \A k \in 1..Len(manifest) :
          LET num == ShardOf(manifest[k].path)
          IN  /\ ShardContainerPath(num) \in DOMAIN _synapse_folders
              /\ manifest[k].parent = _synapse_folders[ShardContainerPath(num)]
              /\ Len(_folders) > 1 =>
                    Occurrences(hist.created, ShardContainerPath(num)) = 1
    /\ (Len(_folders) > 1 /\ folder_num >= 1) =>
          \A other \in 1..Len(_folders) :
              other # folder_num =>
                  ShardContainer(other) # ShardContainer(folder_num)
    /\ Len(_folders) = 1 =>
          hist.created = SubSeq(RemoteFolders, 1, Len(hist.created))

\* 100 shards: the jobs of the 7th are queued for r/007
C14_Witness ==
    /\ Len(_folders) = 100
    /\ \E k \in 1..Len(_work_queue) :
          /\ _work_queue[k].f = 7
          /\ _work_queue[k].folder_path = <<"r", "/", "0", "0", "7">>

\* the rows of a complete manifest: one for every file of every shard, in
\* shard order then file order, with the handle cached for the shard's folder
ExpectedRows ==
    Concat([num \in 1..Len(_folders) |->
              [k \in 1..Len(_folders[num]) |->
                  [ path |-> _folders[num][k],
                    parent |-> _synapse_folders[ShardContainerPath(num)] ]]])

\* C15: in manifest mode no upload worker is started, no job is enqueued and
\* no file store call is made; once the main thread has ended without a
\* failed folder creation, every folder of the remote path and every shard
\* folder has been created once, and the manifest holds exactly one row for
\* every file of every shard, in shard order then file order, with the id
\* of the cached folder of the shard.
C15_ManifestMode ==
    _create_manifest_only =>
        /\ \A t \in UploadWorkers : pc[t] = "new"
        /\ \A k \in 1..Len(_work_queue) : _work_queue[k].kind = "file_info"
        /\ \A f \in Files : hist.job_gets[f] = 0 /\ hist.stored[f] = 0
        /\ (main_pc \in {"done", "crashed"} /\ hist.folder_errors = 0) =>
              /\ hist.created = ExpectedFolders
              /\ \A num \in 1..Len(_folders) :
                    ShardContainerPath(num) \in DOMAIN _synapse_folders
              /\ [k \in 1..Len(manifest) |->
                     [path |-> manifest[k].path,
                      parent |-> manifest[k].parent]] = ExpectedRows

\* the items of the queue and of the workers' hands, as (kind, file) pairs
QueuedItems == {<<_work_queue[k].kind, _work_queue[k].f>> :
                    k \in 1..Len(_work_queue)}
HeldItems(t) == IF job[t] = NoJob THEN {} ELSE {<<job[t].kind, job[t].f>>}

\* C16 (state part): no item is in the queue twice or in two hands, none is
\* dequeued twice, and when wait_for_threads has returned the queue is
\* empty, every item put was dequeued once and no worker is left alive, so
\* that the processing of every dequeued item is over
C16_ExactlyOnce ==
    /\ Cardinality(QueuedItems) = Len(_work_queue)
    /\ \A t, u \in Threads :
          t # u => HeldItems(t) \cap (HeldItems(u) \cup QueuedItems) = {}
    /\ \A f \in Files :
          /\ hist.meta_gets[f] <= 1 /\ hist.job_gets[f] <= 1
          /\ <<"file_info", f>> \in QueuedItems => hist.meta_gets[f] = 0
          /\ <<"folder_obj", f>> \in QueuedItems => hist.job_gets[f] = 0
    /\ main_pc = "dedup" =>
          /\ _work_queue = <<>>
          /\ \A f \in 1..Len(_files) :
                hist.meta_gets[f] = 1 /\ f \in hist.metadata_done
          /\ \A t \in Threads : ~Alive(t)
    /\ (main_pc = "done" /\ ~_create_manifest_only) =>
          /\ _work_queue = <<>>
          /\ \A f \in 1..Len(_files) : hist.job_gets[f] = 1
          /\ \A t \in Threads : ~Alive(t)

\* C16 (step part): nothing is enqueued once the main thread has started to
\* wait for the queue to empty
C16_NoLatePut ==
    main_pc \in {"wait_empty", "signal_exit", "join"} =>
        \/ _work_queue' = _work_queue
        \/ _work_queue # <<>> /\ _work_queue' = Tail(_work_queue)

\* C16: in a run with no interrupt every item put on the queue is dequeued
\* exactly once, by one worker, no item is enqueued after the main thread has
\* started waiting for the queue to empty, and the processing of every
\* dequeued item is over when wait_for_threads returns.
C16_Barrier == [] C16_ExactlyOnce /\ [][C16_NoLatePut]_vars

\* an upload run of two workers and two jobs is over, one worker having been
\* told to exit while it was processing
C16_Witness ==
    /\ main_pc = "done" /\ ~_create_manifest_only
    /\ Len(_threads) = 0 /\ hist.finished = {1, 2}
    /\ pc[<<"UploadWorker", 2>>] = "done"
    /\ \E f \in {1, 2} : f \in hist.failed

\* C17: the lock is released after each acquire, so that no worker waits on
\* it for ever: no worker is at its acquire while the lock is held by a
\* thread that has ended.
C17_NoWaitForEver ==
    \A t \in Threads :
        pc[t] = "acquire" =>
            /\ ~(_thread_lock = MainThread
                    /\ main_pc \in {"done", "crashed", "exited"})
            /\ \A u \in Threads : ~(_thread_lock = u /\ Terminated(u))

\* C18 (as claimed): no upload worker reads the cache at a time when a cache
\* write is still to come, that is, no write follows a read of a worker.
C18_NoWriteAfterRead == hist.late_writes = 0

\* the upload jobs that are in the queue or in the hands of a worker
PendingJobs ==
    {_work_queue[k] : k \in {m \in 1..Len(_work_queue) :
                                _work_queue[m].kind = "folder_obj"}}
    \cup {job[t] : t \in {u \in UploadWorkers : job[u].kind = "folder_obj"}}

\* the cache path the parent lookup of the job reads
ParentPath(folder_obj) ==
    to_synapse_path(<<folder_obj.folder_path,
                      _files[folder_obj.f].calculated_name>>).synapse_parent_path

\* C18 (amended, the writer): a step that changes the cache is a step of the
\* main thread in start, create_remote_path, queue_file_uploads or
\* create_manifest
C18_WriterIsMain ==
    _synapse_folders' # _synapse_folders =>
        /\ MainRuns
        /\ main_pc \in {"start", "create_remote_path", "queue",
                         "manifest_folder"}
        /\ UNCHANGED workers

\* C18 (amended, the readers): no step writes the cache entry that the parent
\* lookup of a pending job reads
C18_PendingEntryStable ==
    \A folder_obj \in PendingJobs :
        LET parent_path == ParentPath(folder_obj)
        IN  /\ (parent_path \in DOMAIN _synapse_folders')
                   = (parent_path \in DOMAIN _synapse_folders)
            /\ parent_path \in DOMAIN _synapse_folders =>
                  _synapse_folders'[parent_path] = _synapse_folders[parent_path]

\* C18 (amended): all writes to the folder cache are made by the main thread
\* only. They do not all precede the readers (the folder of a later shard is
\* written while the workers process the jobs of an earlier one), but the
\* entry that the parent lookup of a job reads is never written once the job
\* has been enqueued.
C18_WritesByMainBeforeEnqueue ==
    [][C18_WriterIsMain /\ C18_PendingEntryStable]_vars

\* the folder of the second shard was written after a worker had read the
\* cache for a job of the first
C18_Witness ==
    /\ hist.late_writes = 1 /\ hist.reads >= 1
    /\ Len(_folders) = 2 /\ folder_num = 2
    /\ \E folder_obj \in PendingJobs : folder_obj.f = 2

\* the main thread is in the wait_for_threads of load_files, of upload_files
InLoadWait == main_pc \in {"wait_empty", "signal_exit", "join"} /\ ret = "dedup"
InUploadWait == main_pc \in {"wait_empty", "signal_exit", "join"} /\ ret = "done"

\* the first n threads of a worker type, in the order they are created
Pool(worker_type, n) == [k \in 1..n |-> <<worker_type, k>>]

\* C19 (as claimed): the discovery pool has min(thread count, number of
\* discovered files) workers; checked once the walk has discovered the files.
C19_DiscoveryPoolIsMin ==
    InLoadWait => Len(_threads) = Min(_thread_count, Len(_files))

\* C19 (amended): the discovery pool is started with the configured thread
\* count of workers, before any file is discovered and whatever their number;
\* it is the upload pool that has min(thread count, number of file records)
\* workers.
C19_PoolSizes ==
    /\ (main_pc = "walk" \/ InLoadWait) =>
          /\ _threads = Pool("FileMetadataWorker", _thread_count)
          /\ {t \in Threads : pc[t] # "new"} =
                {_threads[k] : k \in 1..Len(_threads)}
    /\ (~_create_manifest_only
          /\ (main_pc \in {"create_remote_path", "queue", "queue_acquire",
                            "queue_put", "queue_release"} \/ InUploadWait)) =>
          /\ _threads = Pool("UploadWorker", Min(_thread_count, Len(_files)))
          /\ {t \in UploadWorkers : pc[t] # "new"} =
                {_threads[k] : k \in 1..Len(_threads)}

\* two discovery workers were started and the walk found one file
C19_Witness ==
    /\ InLoadWait /\ _thread_count = 2 /\ Len(_files) = 1
    /\ _threads = Pool("FileMetadataWorker", 2)
    /\ hist.metadata_done = {1}

\* the worker is between its copyfile and its os.remove
Staging(t) == pc[t] \in {"retry", "remove"}

\* C20: staging paths are exclusive: at no time are two upload workers
\* between their copyfile and their os.remove with the same staging path.
C20_StagingExclusive ==
    \A t, u \in UploadWorkers :
        (t # u /\ Staging(t) /\ Staging(u)) => temp_file(t) # temp_file(u)

\* the threads that are between an acquire of the lock and its release
InCriticalSection ==
    {t \in Threads : pc[t] = "get"}
    \cup (IF main_pc \in {"queue_put", "queue_release"}
          THEN {MainThread} ELSE {})

\* C21 (state part): a worker at its get holds the lock and finds the queue
\* non-empty; at most one thread is between an acquire and its release, and
\* it is the holder; a worker that processes, sleeps or has ended does not
\* hold the lock
C21_GetUnderLock ==
    /\ \A t \in Threads :
          /\ pc[t] = "get" => _thread_lock = t /\ _work_queue # <<>>
          /\ pc[t] # "get" => _thread_lock # t
    /\ Cardinality(InCriticalSection) <= 1
    /\ \A t \in InCriticalSection : _thread_lock = t

\* C21 (step part): only a worker that holds the lock removes an item, and
\* it removes the head
C21_OnlyHolderRemoves ==
    (_work_queue # <<>> /\ _work_queue' = Tail(_work_queue)) =>
        \E t \in Threads :
            /\ _thread_lock = t /\ pc[t] = "get" /\ pc'[t] = "process"
            /\ job'[t] = Head(_work_queue)
            /\ _thread_lock' = Unlocked

\* C21: the blocking get is never executed on an empty queue: the emptiness
\* test and the get are made by a worker that holds the lock, only workers
\* remove items, the lock is held by at most one thread at a time, and a
\* worker has released it before it processes or sleeps.
C21_GetNeverBlocks == [] C21_GetUnderLock /\ [][C21_OnlyHolderRemoves]_vars

\* a worker is at its get with one item queued while the other worker waits
\* for the lock
C21_Witness ==
    \E t, u \in UploadWorkers :
        /\ pc[t] = "get" /\ pc[u] = "acquire"
        /\ Len(_work_queue) = 1

====
